---------------------------- MODULE Spec2Model ----------------------------
(***************************************************************************)
(* Model of app.py of kiscon-dispose-crawler: the listing crawler          *)
(* crawl_list_pages (specification Spec), the detail stage                 *)
(* fetch_details_parallel (DetailSpec), the fetcher _get_html with the     *)
(* session's Retry object (FetchSpec), and the functions                   *)
(* _find_notice_list_table (TableSpec) and extract_location_from_detail    *)
(* (LocationSpec).                                                         *)
(*                                                                         *)
(* A listing row is [seqno, notice_url, cells]; a DataFrame is a record    *)
(* [tagged, page, rows], tagged telling whether the "_page" column has     *)
(* been inserted in front.  The registry is the environment: every page    *)
(* request either raises, or answers a document without a listing table,   *)
(* or answers a listing table that parses to a (possibly empty) row list.  *)
(***************************************************************************)
EXTENDS Integers, Sequences, FiniteSets, TLC

\* ------------------------------------------------------------------ bounds
\* Largest total_pages a page-1 response announces.
MaxPages == 4
\* Largest "총 N 건" total count a page-1 response announces.
MaxCount == 4
\* Every listing of at most this many rows is handed to the detail stage.
MaxListing == 2
\* Largest value of the "workers" slider that is tried.
MaxWorkers == 2
\* Largest number of table elements of a document.
MaxTables == 3
\* Largest number of tr elements of a table.
MaxRows == 2
\* Largest number of words of a detail text.
MaxTokens == 4

\* ------------------------------------------------------------- strings
Min(a, b) == IF a < b THEN a ELSE b

Max(a, b) == IF a > b THEN a ELSE b

\* "|".join(vals)
RECURSIVE Join(_)
Join(vals) ==
    IF vals = <<>> THEN ""
    ELSE IF Len(vals) = 1 THEN vals[1]
    ELSE vals[1] \o "|" \o Join(Tail(vals))

\* VIEW_URL.format(seqno=seqno), the host abbreviated
VIEW_URL(seqno) == "view_07.asp?seqno=" \o seqno

\* One parsed table row: seqnos.append(seqno); urls.append(VIEW_URL... if seqno else "")
ParsedRow(seqno, cells) ==
    [seqno |-> seqno,
     notice_url |-> IF seqno # "" THEN VIEW_URL(seqno) ELSE "",
     cells |-> cells]

\* ------------------------------------------------------------- inputs
rowA == ParsedRow("7", <<"a", "b", "c", "p">>)

\* rowA with one more cell: the same leading values, another row
rowA5 == ParsedRow("7", <<"a", "b", "c", "p", "z">>)

rowB == ParsedRow("8", <<"a", "b", "c", "q">>)

rowC == ParsedRow("9", <<"d", "e", "f", "r">>)

\* a row in which no f_go_location(...) handler was found
rowE == ParsedRow("", <<"a", "b", "c", "p">>)

\* What _parse_notice_list_table can return for a page that has a listing table
PageContents ==
    { <<>>, <<rowA>>, <<rowA5, rowB>>, <<rowB>>, <<rowE, rowA>> }

FailModes == {"continue", "stop"}

\* str(e) of the exception _get_html raises
ErrMsgs == {"timeout"}

\* Optional[int]: <<>> is None, <<n>> is n
OptInts(n) == {<<>>} \cup { <<i>> : i \in 0..n }

\* ------------------------------------------------------------- helpers
\* a freshly parsed DataFrame (no "_page" column yet)
ParsedDf(rows) == [tagged |-> FALSE, page |-> 0, rows |-> rows]

\* df.insert(0, "_page", page)
InsertPage(df, page) == [tagged |-> TRUE, page |-> page, rows |-> df.rows]

\* df.iloc[0].astype(str).tolist()
FirstRowVals(df) ==
    LET r == df.rows[1]
    IN  (IF df.tagged THEN <<ToString(df.page)>> ELSE <<>>)
            \o <<r.seqno, r.notice_url>> \o r.cells

_first_row_key(df) ==
    IF df.rows = <<>> THEN ""
    ELSE LET vals == FirstRowVals(df)
         IN  Join(SubSeq(vals, 1, Min(6, Len(vals))))

\* math.ceil(a / b) for a >= 0, b > 0
Ceil(a, b) == (a + b - 1) \div b

_calc_total_pages(total_count, rows_per_page) ==
    IF total_count = <<>> \/ rows_per_page <= 0 THEN <<>>
    ELSE <<Max(1, Ceil(total_count[1], rows_per_page))>>

\* Python's truthiness of an Optional[int]
Truthy(opt) == opt # <<>> /\ opt[1] # 0

\* mutant: the total count is never consulted
TotalPagesWidgetOnly(widget, total_count, rows_per_page) ==
    IF Truthy(widget) THEN widget[1] ELSE 1

\* _extract_total_pages_widget(soup1) or _calc_total_pages(...) or 1
TotalPages(widget, total_count, rows_per_page) ==
    IF Truthy(widget) THEN widget[1]
    ELSE IF Truthy(_calc_total_pages(total_count, rows_per_page))
         THEN _calc_total_pages(total_count, rows_per_page)[1]
         ELSE 1

\* len(df)
DfLen(df) == Len(df.rows)

\* sum(len(x) for x in frames)
RECURSIVE SumLen(_)
SumLen(fs) == IF fs = <<>> THEN 0 ELSE DfLen(Head(fs)) + SumLen(Tail(fs))

\* the rows of one frame, each carrying the frame's "_page" value
TaggedRows(df) ==
    [i \in 1..Len(df.rows) |->
        [page |-> df.page, seqno |-> df.rows[i].seqno,
         notice_url |-> df.rows[i].notice_url, cells |-> df.rows[i].cells]]

\* pd.concat(frames, ignore_index=True)
RECURSIVE Concat(_)
Concat(fs) == IF fs = <<>> THEN <<>> ELSE TaggedRows(Head(fs)) \o Concat(Tail(fs))

\* ------------------------------------------------------------- state
VARIABLES
    pc,           \* "page1", "loop", "done": where crawl_list_pages stands
    fail_mode,    \* argument of crawl_list_pages
    page,         \* the page being requested (the loop variable)
    total_pages,  \* 0 until it is computed from page 1
    frames,       \* the accepted DataFrames
    last_key,     \* fingerprint kept by the loop
    outcome,      \* "running", "returned", "raised"
    result,       \* the returned DataFrame (rows with their _page)
    events,       \* the calls of progress_cb
    attempts,     \* history: one record per page request
    sleep_sec,    \* argument of crawl_list_pages, in hundredths of a second
    trace,        \* history: the calls of _get_html and time.sleep, in call order
    page1_info,   \* history: what page 1 announced (widget, count, rows per page)
    dpc,          \* "idle", "start", "pool", "done": where fetch_details_parallel stands
    df,           \* its argument, the listing
    workers,      \* its argument
    targets,      \* the deduplicated (seqno, notice_url) pairs
    tasks,        \* one record per submitted future
    results,      \* the list the main thread appends to
    done,         \* the counter of the main thread
    dprogress,    \* the calls of progress_cb of the detail stage
    out,          \* the returned DataFrame
    requests,     \* history: the URLs _get_html was called with, in call order
    fpc,          \* "idle", "get", "send", "returned", "raised": where _get_html stands
    attempt,      \* the loop variable of _get_html
    retries,      \* the counters of the adapter's Retry object
    last_err,     \* the exception _get_html caught last
    answers,      \* history: the kinds of answer the server gave to this call
    flog,         \* history: session.get calls and time.sleep calls of _get_html
    fout,         \* what _get_html returned or raised
    tpc,          \* "idle", "find", "done": where _find_notice_list_table stands
    html_tables,  \* soup.find_all("table"), in document order
    picked,       \* index of the returned table in html_tables, 0 for None
    lpc,          \* "idle", "extract", "done": where extract_location_from_detail stands
    detail_tokens,\* the words of detail_text
    location      \* the returned string

cvars == <<pc, fail_mode, page, total_pages, frames, last_key, outcome, result,
           events, attempts, sleep_sec, trace, page1_info>>

dvars == <<dpc, df, workers, targets, tasks, results, done, dprogress, out,
           requests>>

fvars == <<fpc, attempt, retries, last_err, answers, flog, fout>>

tvars == <<tpc, html_tables, picked>>

lvars == <<lpc, detail_tokens, location>>

vars == <<cvars, dvars, fvars, tvars, lvars>>

Event(p, tp, rows_this, rows_total, status) ==
    [page |-> p, total_pages |-> tp, rows_this |-> rows_this,
     rows_total |-> rows_total, status |-> status]

\* kind is what the registry answered ("fail", "no_table", "rows"), rows what the
\* page parsed to, verdict what crawl_list_pages made of it
Attempt(p, kind, rows, verdict) ==
    [page |-> p, kind |-> kind, rows |-> rows, verdict |-> verdict]

\* a call of _get_html and a call of time.sleep, as the crawl makes them
Get(p) == [op |-> "get", page |-> p]

Sleep(secs) == [op |-> "sleep", secs |-> secs]

\* `if sleep_sec > 0: time.sleep(sleep_sec)`
SleepIfPositive(secs) == IF secs > 0 THEN <<Sleep(secs)>> ELSE <<>>

\* the values of the "sleep_sec" slider that are tried, in hundredths of a second
SleepSecs == {0, 5}

\* total_pages_widget, total_count and rows_per_page as page 1 gave them
Page1Info(widget, count, rows_per_page) ==
    [widget |-> widget, total_count |-> count, rows_per_page |-> rows_per_page]

\* the Retry object of build_session: total=5, connect=5, read=5
RetryBudget == [total |-> 5, connect |-> 5, read |-> 5]

\* nothing returned, nothing raised
NoFetch == [kind |-> "none", value |-> ""]

\* history of one call of _get_html: how many requests the server answered
\* with a status of the forcelist, with a connection failure, with a read
\* timeout, with a response that is handed to the caller, with a broken body;
\* and the status of the response handed to the caller (0 when there is none)
NoAnswers ==
    [forcelist |-> 0, connect |-> 0, read |-> 0, passed |-> 0, broken |-> 0,
     status |-> 0]

\* _get_html has not been called
FetchIdle ==
    /\ fpc = "idle"
    /\ attempt = 0
    /\ retries = RetryBudget
    /\ last_err = ""
    /\ answers = NoAnswers
    /\ flog = <<>>
    /\ fout = NoFetch

\* _find_notice_list_table has not been called
TableIdle ==
    /\ tpc = "idle"
    /\ html_tables = <<>>
    /\ picked = 0

\* extract_location_from_detail has not been called
LocationIdle ==
    /\ lpc = "idle"
    /\ detail_tokens = <<>>
    /\ location = ""

\* fetch_details_parallel has not been called
DetailIdle ==
    /\ dpc = "idle"
    /\ df = <<>>
    /\ workers = 1
    /\ targets = <<>>
    /\ tasks = <<>>
    /\ results = <<>>
    /\ done = 0
    /\ dprogress = <<>>
    /\ out = [merged |-> FALSE, rows |-> <<>>]
    /\ requests = <<>>

\* crawl_list_pages has not been called
CrawlIdle ==
    /\ pc = "page1"
    /\ fail_mode = "continue"
    /\ page = 1
    /\ total_pages = 0
    /\ frames = <<>>
    /\ last_key = ""
    /\ outcome = "running"
    /\ result = <<>>
    /\ events = <<>>
    /\ attempts = <<>>
    /\ sleep_sec = 0
    /\ trace = <<>>
    /\ page1_info = <<>>

Init ==
    /\ pc = "page1"
    /\ fail_mode \in FailModes
    /\ page = 1
    /\ total_pages = 0
    /\ frames = <<>>
    /\ last_key = ""
    /\ outcome = "running"
    /\ result = <<>>
    /\ events = <<>>
    /\ attempts = <<>>
    /\ sleep_sec \in SleepSecs
    /\ trace = <<>>
    /\ page1_info = <<>>
    /\ DetailIdle
    /\ FetchIdle
    /\ TableIdle
    /\ LocationIdle

\* return pd.concat(frames, ignore_index=True)
ReturnFrames(fs) ==
    /\ pc' = "done"
    /\ outcome' = "returned"
    /\ result' = Concat(fs)

\* mutant: range(2, total_pages + 2)
NextIterationOffByOne(p, tp, fs) ==
    IF p <= tp
    THEN /\ pc' = "loop"
         /\ page' = p + 1
         /\ UNCHANGED <<outcome, result>>
    ELSE /\ ReturnFrames(fs)
         /\ UNCHANGED page

\* the for statement takes the next value of range(2, total_pages + 1), or ends
NextIteration(p, tp, fs) ==
    IF p + 1 <= tp
    THEN /\ pc' = "loop"
         /\ page' = p + 1
         /\ UNCHANGED <<outcome, result>>
    ELSE /\ ReturnFrames(fs)
         /\ UNCHANGED page

\* break
Break(fs) ==
    /\ ReturnFrames(fs)
    /\ UNCHANGED page

\* mutant: the failure policy is ignored and the loop always breaks
ApplyFailModeAlwaysBreak(p, tp, fs) == Break(fs)

\* mutant: the failure policy is ignored and the loop always continues
ApplyFailModeAlwaysContinue(p, tp, fs) == NextIteration(p, tp, fs)

\* `if fail_mode == "continue": continue` and then `break`
ApplyFailMode(p, tp, fs) ==
    IF fail_mode = "continue" THEN NextIteration(p, tp, fs) ELSE Break(fs)

\* ------------------------------------------------------------- page 1
\* _get_html raises on page 1: nothing catches it
Page1Fail ==
    /\ pc = "page1"
    /\ trace' = Append(trace, Get(1))
    /\ \E e \in ErrMsgs :
        attempts' = Append(attempts, Attempt(1, "fail", <<>>, "raised"))
    /\ pc' = "done"
    /\ outcome' = "raised"
    /\ UNCHANGED <<sleep_sec, page1_info, fail_mode, page, total_pages, frames, last_key, result, events>>
    /\ UNCHANGED <<dvars, fvars, tvars, lvars>>

\* table1 is None: return pd.DataFrame()
Page1NoTable ==
    /\ pc = "page1"
    /\ trace' = Append(trace, Get(1))
    /\ attempts' = Append(attempts, Attempt(1, "no_table", <<>>, "no_table"))
    /\ pc' = "done"
    /\ outcome' = "returned"
    /\ result' = <<>>
    /\ UNCHANGED <<sleep_sec, page1_info, fail_mode, page, total_pages, frames, last_key, events>>
    /\ UNCHANGED <<dvars, fvars, tvars, lvars>>

\* df1.empty: return pd.DataFrame()
Page1Empty ==
    /\ pc = "page1"
    /\ trace' = Append(trace, Get(1))
    /\ attempts' = Append(attempts, Attempt(1, "rows", <<>>, "empty"))
    /\ pc' = "done"
    /\ outcome' = "returned"
    /\ result' = <<>>
    /\ UNCHANGED <<sleep_sec, page1_info, fail_mode, page, total_pages, frames, last_key, events>>
    /\ UNCHANGED <<dvars, fvars, tvars, lvars>>

Page1Ok ==
    /\ pc = "page1"
    /\ trace' = Append(trace, Get(1))
    /\ \E rows \in PageContents \ {<<>>}, widget \in OptInts(MaxPages),
          total_count \in OptInts(MaxCount) :
        LET df1 == InsertPage(ParsedDf(rows), 1)
            tp == TotalPages(widget, total_count, Len(rows))
        IN  /\ tp <= MaxPages
            /\ attempts' = Append(attempts, Attempt(1, "rows", rows, "page_ok"))
            /\ total_pages' = tp
            /\ page1_info' = <<Page1Info(widget, total_count, Len(rows))>>
            /\ frames' = <<df1>>
            /\ last_key' = _first_row_key(df1)
            /\ events' = Append(events,
                    Event(1, tp, DfLen(df1), DfLen(df1), "page_ok"))
            /\ NextIteration(1, tp, <<df1>>)
    /\ UNCHANGED <<sleep_sec, fail_mode>>
    /\ UNCHANGED <<dvars, fvars, tvars, lvars>>

\* ------------------------------------------------------------- pages 2..
\* _get_html raises
PageFail ==
    /\ pc = "loop"
    /\ trace' = Append(trace, Get(page))
    /\ \E e \in ErrMsgs :
        events' = Append(events,
            Event(page, total_pages, 0, SumLen(frames), "page_fail: " \o e))
    /\ attempts' = Append(attempts, Attempt(page, "fail", <<>>, "page_fail"))
    /\ ApplyFailMode(page, total_pages, frames)
    /\ UNCHANGED <<sleep_sec, page1_info, fail_mode, total_pages, frames, last_key>>
    /\ UNCHANGED <<dvars, fvars, tvars, lvars>>

\* mutant: a page without a listing table ends the loop like an empty page
PageNoTableBreaks ==
    /\ pc = "loop"
    /\ trace' = Append(trace, Get(page))
    /\ events' = Append(events,
            Event(page, total_pages, 0, SumLen(frames), "page_no_table"))
    /\ attempts' = Append(attempts, Attempt(page, "no_table", <<>>, "page_no_table"))
    /\ Break(frames)
    /\ UNCHANGED <<sleep_sec, page1_info, fail_mode, total_pages, frames, last_key>>
    /\ UNCHANGED <<dvars, fvars, tvars, lvars>>

\* table is None
PageNoTable ==
    /\ pc = "loop"
    /\ trace' = Append(trace, Get(page))
    /\ events' = Append(events,
            Event(page, total_pages, 0, SumLen(frames), "page_no_table"))
    /\ attempts' = Append(attempts, Attempt(page, "no_table", <<>>, "page_no_table"))
    /\ ApplyFailMode(page, total_pages, frames)
    /\ UNCHANGED <<sleep_sec, page1_info, fail_mode, total_pages, frames, last_key>>
    /\ UNCHANGED <<dvars, fvars, tvars, lvars>>

\* mutant: an empty page is treated as a failed page
PageEmptyAsFailure ==
    /\ pc = "loop"
    /\ trace' = Append(trace, Get(page))
    /\ events' = Append(events,
            Event(page, total_pages, 0, SumLen(frames), "no_more_rows"))
    /\ attempts' = Append(attempts, Attempt(page, "rows", <<>>, "no_more_rows"))
    /\ ApplyFailMode(page, total_pages, frames)
    /\ UNCHANGED <<sleep_sec, page1_info, fail_mode, total_pages, frames, last_key>>
    /\ UNCHANGED <<dvars, fvars, tvars, lvars>>

\* df.empty
PageEmpty ==
    /\ pc = "loop"
    /\ trace' = Append(trace, Get(page))
    /\ events' = Append(events,
            Event(page, total_pages, 0, SumLen(frames), "no_more_rows"))
    /\ attempts' = Append(attempts, Attempt(page, "rows", <<>>, "no_more_rows"))
    /\ Break(frames)
    /\ UNCHANGED <<sleep_sec, page1_info, fail_mode, total_pages, frames, last_key>>
    /\ UNCHANGED <<dvars, fvars, tvars, lvars>>

\* `if key and key == last_key`
IsRepeat(key, last) == key # "" /\ key = last

\* mutant: the repeated page is appended to the frames before the loop ends
PageRepeatKeepsRows ==
    /\ pc = "loop"
    /\ trace' = Append(trace, Get(page))
    /\ \E rows \in PageContents \ {<<>>} :
        LET fs == Append(frames, InsertPage(ParsedDf(rows), page))
        IN  /\ IsRepeat(_first_row_key(ParsedDf(rows)), last_key)
            /\ attempts' = Append(attempts,
                    Attempt(page, "rows", rows, "repeat_page_detected"))
            /\ frames' = fs
            /\ Break(fs)
    /\ events' = Append(events,
            Event(page, total_pages, 0, SumLen(frames), "repeat_page_detected"))
    /\ UNCHANGED <<sleep_sec, page1_info, fail_mode, total_pages, last_key>>
    /\ UNCHANGED <<dvars, fvars, tvars, lvars>>

\* `if key and key == last_key`: progress_cb(..., "repeat_page_detected"); break
PageRepeat ==
    /\ pc = "loop"
    /\ trace' = Append(trace, Get(page))
    /\ \E rows \in PageContents \ {<<>>} :
        /\ IsRepeat(_first_row_key(ParsedDf(rows)), last_key)
        /\ attempts' = Append(attempts,
                Attempt(page, "rows", rows, "repeat_page_detected"))
    /\ events' = Append(events,
            Event(page, total_pages, 0, SumLen(frames), "repeat_page_detected"))
    /\ Break(frames)
    /\ UNCHANGED <<sleep_sec, page1_info, fail_mode, total_pages, frames, last_key>>
    /\ UNCHANGED <<dvars, fvars, tvars, lvars>>

PageOk ==
    /\ pc = "loop"
    /\ trace' = Append(trace, Get(page)) \o SleepIfPositive(sleep_sec)
    /\ \E rows \in PageContents \ {<<>>} :
        LET dfp == ParsedDf(rows)
            key == _first_row_key(dfp)
            fs == Append(frames, InsertPage(dfp, page))
        IN  /\ ~IsRepeat(key, last_key)
            /\ last_key' = key
            /\ frames' = fs
            /\ attempts' = Append(attempts, Attempt(page, "rows", rows, "page_ok"))
            /\ events' = Append(events,
                    Event(page, total_pages, DfLen(dfp), SumLen(fs), "page_ok"))
            /\ NextIteration(page, total_pages, fs)
    /\ UNCHANGED <<sleep_sec, page1_info, fail_mode, total_pages>>
    /\ UNCHANGED <<dvars, fvars, tvars, lvars>>

Next ==
    \/ Page1Fail
    \/ Page1NoTable
    \/ Page1Empty
    \/ Page1Ok
    \/ PageFail
    \/ PageNoTable
    \/ PageEmpty
    \/ PageRepeat
    \/ PageOk

Spec == Init /\ [][Next]_vars

\* crawl_list_pages runs on one thread: a step that can be taken is taken
LiveSpec == Spec /\ WF_vars(Next)

\* The run block around crawl_list_pages: an exception ends the script run
\* with the exception shown; `if df.empty` shows the warning and stops;
\* otherwise the run goes on to the detail stage.
RunStatus ==
    IF outcome = "raised" THEN "exception"
    ELSE IF result = <<>> THEN "warning_no_results"
    ELSE "collected"

\* what a run lets its user see: the status shown, the progress events
\* list_progress_cb displayed, the dataset
Observation == [status |-> RunStatus, events |-> events, dataset |-> result]

\* ------------------------------------------------------------- detail stage
\* the rows the listing parser can produce
RowPool == {rowA, rowA5, rowB, rowC, rowE}

\* some longer listings: three keys, a key on two different rows, rows without key
LongListings ==
    { <<rowA, rowB, rowC>>, <<rowA, rowB, rowA5>>, <<rowA, rowE, rowB>>,
      <<rowE, rowB, rowA>>, <<rowB, rowA5, rowC, rowA, rowE>> }

\* the non-empty listings of at most MaxListing rows, and the longer ones
Listings == UNION { [1..n -> RowPool] : n \in 1..MaxListing } \cup LongListings

\* What a detail request can come back with: a page whose picked text is
\* resp.text (possibly empty), or an exception whose str() is resp.err
DetailResponses ==
    { [kind |-> "text", text |-> "loc: Seoul cat: paving", err |-> ""],
      [kind |-> "text", text |-> "", err |-> ""],
      [kind |-> "raise", text |-> "", err |-> "timeout"] }

NoResponse == [kind |-> "none", text |-> "", err |-> ""]

NoResult == [seqno |-> "", detail_text |-> "", detail_ok |-> "", detail_error |-> ""]

\* a cell pandas leaves unset
NaN == "NaN"

\* the detail columns of a row without a match in the join
NaNDetail == [detail_text |-> NaN, detail_ok |-> NaN, detail_error |-> NaN]

\* a DataFrame that has no detail column
NoColumns == [detail_text |-> "<none>", detail_ok |-> "<none>", detail_error |-> "<none>"]

\* df[["seqno", "notice_url"]]
KeyColumns(d) ==
    [i \in 1..Len(d) |-> [seqno |-> d[i].seqno, notice_url |-> d[i].notice_url]]

\* mutant: rows with an empty seqno are kept
KeepEmptyKeys(t) == t

\* targets[targets["seqno"].astype(str).str.len() > 0]
NonEmptyKeys(t) == SelectSeq(t, LAMBDA r : Len(r.seqno) > 0)

RECURSIVE DropSeen(_, _)
DropSeen(t, seen) ==
    IF t = <<>> THEN <<>>
    ELSE IF Head(t).seqno \in seen
         THEN DropSeen(Tail(t), seen)
         ELSE <<Head(t)>> \o DropSeen(Tail(t), seen \cup {Head(t).seqno})

\* mutant: no deduplication
keep_duplicates(t) == t

\* targets.drop_duplicates(subset=["seqno"])
drop_duplicates(t) == DropSeen(t, {})

Targets(d) == drop_duplicates(NonEmptyKeys(KeyColumns(d)))

\* mutant: the exception's text is dropped
fetch_one_detail_no_error(seqno, url, resp) ==
    IF url = ""
    THEN [seqno |-> seqno, detail_text |-> "", detail_ok |-> "0",
          detail_error |-> "missing_url"]
    ELSE IF resp.kind = "raise"
         THEN [seqno |-> seqno, detail_text |-> "", detail_ok |-> "0",
               detail_error |-> ""]
         ELSE [seqno |-> seqno, detail_text |-> resp.text,
               detail_ok |-> IF resp.text # "" THEN "1" ELSE "0",
               detail_error |-> IF resp.text # "" THEN "" ELSE "empty_detail_text"]

fetch_one_detail(seqno, url, resp) ==
    IF url = ""
    THEN [seqno |-> seqno, detail_text |-> "", detail_ok |-> "0",
          detail_error |-> "missing_url"]
    ELSE IF resp.kind = "raise"
         THEN [seqno |-> seqno, detail_text |-> "", detail_ok |-> "0",
               detail_error |-> resp.err]
         ELSE [seqno |-> seqno, detail_text |-> resp.text,
               detail_ok |-> IF resp.text # "" THEN "1" ELSE "0",
               detail_error |-> IF resp.text # "" THEN "" ELSE "empty_detail_text"]

\* ------------------------------------------------------------- location
\* Strings are ASCII here: "loc" stands for the label 소재지, "cat" for 업종
\* and "dcat" for 처분업종 (which ends in 업종 as "dcat" ends in "cat").

\* s[i], or "" beyond the end
CharAt(s, i) == IF 1 <= i /\ i <= Len(s) THEN SubSeq(s, i, i) ELSE ""

\* s[i:].startswith(lit)
StartsWith(s, i, lit) ==
    /\ i >= 1
    /\ i + Len(lit) - 1 <= Len(s)
    /\ SubSeq(s, i, i + Len(lit) - 1) = lit

\* where \s* stops when it starts at i
RECURSIVE SkipSpaces(_, _)
SkipSpaces(s, i) == IF CharAt(s, i) = " " THEN SkipSpaces(s, i + 1) ELSE i

\* the class [가-힣A-Za-z0-9ㆍ\(\)], on the ASCII stand-in
LabelChars ==
    { "a", "b", "c", "d", "e", "f", "g", "h", "i", "j", "k", "l", "m", "n", "o",
      "p", "q", "r", "s", "t", "u", "v", "w", "x", "y", "z",
      "A", "B", "C", "D", "E", "F", "G", "H", "I", "J", "K", "L", "M", "N", "O",
      "P", "Q", "R", "S", "T", "U", "V", "W", "X", "Y", "Z",
      "0", "1", "2", "3", "4", "5", "6", "7", "8", "9", "(", ")" }

\* where [...]+ stops when it starts at i
RECURSIVE SkipLabel(_, _)
SkipLabel(s, i) == IF CharAt(s, i) \in LabelChars THEN SkipLabel(s, i + 1) ELSE i

\* re.sub(r"\s+", " ", s): s from i on, sp telling that s[i-1] was a space
RECURSIVE Collapse(_, _, _)
Collapse(s, i, sp) ==
    IF i > Len(s) THEN ""
    ELSE IF CharAt(s, i) = " "
         THEN (IF sp THEN "" ELSE " ") \o Collapse(s, i + 1, TRUE)
         ELSE CharAt(s, i) \o Collapse(s, i + 1, FALSE)

\* .strip() of a string whose runs of spaces are single
Strip(s) ==
    LET a == IF CharAt(s, 1) = " " THEN 2 ELSE 1
        b == IF CharAt(s, Len(s)) = " " THEN Len(s) - 1 ELSE Len(s)
    IN  IF a > b THEN "" ELSE SubSeq(s, a, b)

_normalize(s) == Strip(Collapse(s, 1, FALSE))

\* 소재지\s*:\s* matches at i
AddressLabelAt(s, i) ==
    /\ StartsWith(s, i, "loc")
    /\ CharAt(s, SkipSpaces(s, i + 3)) = ":"

\* where the group (.*?) starts for the label at i
CaptureStart(s, i) == SkipSpaces(s, SkipSpaces(s, i + 3) + 1)

\* \s*(?=(업종|처분업종)\s*:\s*) matches at e
StrictAhead(s, e) ==
    \E lab \in {"cat", "dcat"} :
        /\ StartsWith(s, SkipSpaces(s, e), lab)
        /\ CharAt(s, SkipSpaces(s, SkipSpaces(s, e) + Len(lab))) = ":"

\* (?=\s*[가-힣A-Za-z0-9ㆍ\(\)]+\s*:\s*) matches at e
LooseAhead(s, e) ==
    LET j == SkipSpaces(s, e)
    IN  /\ SkipLabel(s, j) > j
        /\ CharAt(s, SkipSpaces(s, SkipLabel(s, j))) = ":"

\* mutant: the first pattern looks ahead for any label, like the second
AheadAnyLabel(s, e, strict) == LooseAhead(s, e)

\* the lookahead of _LOC_RE (strict) or of the second pattern matches at e
Ahead(s, e, strict) == IF strict THEN StrictAhead(s, e) ELSE LooseAhead(s, e)

\* the ends the lazy group can have for the label at i
CaptureEnds(s, i, strict) ==
    { e \in CaptureStart(s, i)..Len(s) : Ahead(s, e, strict) }

\* pattern.search(s): <<group 1>> of the leftmost match, <<>> without a match
SearchLocation(s, strict) ==
    LET starts == { i \in 1..Len(s) :
                      AddressLabelAt(s, i) /\ CaptureEnds(s, i, strict) # {} }
    IN  IF starts = {} THEN <<>>
        ELSE LET i == CHOOSE x \in starts : \A y \in starts : x <= y
                 ends == CaptureEnds(s, i, strict)
                 e == CHOOSE x \in ends : \A y \in ends : x <= y
             IN  << IF e > CaptureStart(s, i)
                    THEN SubSeq(s, CaptureStart(s, i), e - 1) ELSE "" >>

extract_location_from_detail(detail_text) ==
    IF detail_text = "" THEN ""
    ELSE LET txt == _normalize(detail_text)
             m == SearchLocation(txt, TRUE)
             m2 == SearchLocation(txt, FALSE)
         IN  IF m # <<>> THEN _normalize(m[1])
             ELSE IF m2 # <<>> THEN _normalize(m2[1])
             ELSE ""

\* the detail columns of one result
DetailOf(res) ==
    [detail_text |-> res.detail_text, detail_ok |-> res.detail_ok,
     detail_error |-> res.detail_error]

\* the rows of detail_df with the seqno of the listing row r, in their order
Matches(r, right) == SelectSeq(right, LAMBDA d : d.seqno = r.seqno)

\* .astype(str) of a text cell
AsStr(v) == IF v = NaN THEN "nan" ELSE v

\* the values the detail_text column can hold, as strings
DetailTexts == { AsStr(r.text) : r \in DetailResponses } \cup {"", AsStr(NaN)}

\* extract_location_from_detail on those values, computed once
LocationOf == [t \in DetailTexts |-> extract_location_from_detail(t)]

\* a row of the joined DataFrame with its location column:
\* out["detail_text"].astype(str).apply(extract_location_from_detail)
OutRow(r, d) ==
    [row |-> r, detail |-> d,
     location |-> LocationOf[AsStr(d.detail_text)]]

\* one listing row joined to its matches, or to NaN when it has none
JoinRow(r, right) ==
    LET m == Matches(r, right)
    IN  IF m = <<>> THEN << OutRow(r, NaNDetail) >>
        ELSE [k \in 1..Len(m) |-> OutRow(r, DetailOf(m[k]))]

\* mutant: how="inner"
RECURSIVE MergeInner(_, _)
MergeInner(left, right) ==
    IF left = <<>> THEN <<>>
    ELSE (IF Matches(Head(left), right) = <<>> THEN <<>>
          ELSE JoinRow(Head(left), right)) \o MergeInner(Tail(left), right)

\* df.merge(detail_df, on="seqno", how="left")
RECURSIVE Merge(_, _)
Merge(left, right) ==
    IF left = <<>> THEN <<>>
    ELSE JoinRow(Head(left), right) \o Merge(Tail(left), right)

\* `return df`: the listing as it came, without detail columns
Unmerged(d) ==
    [i \in 1..Len(d) |-> [row |-> d[i], detail |-> NoColumns, location |-> "<none>"]]

\* max_workers=max(1, int(workers))
PoolSize == Max(1, workers)

Running == { i \in 1..Len(tasks) : tasks[i].st = "running" }

Queued == { i \in 1..Len(tasks) : tasks[i].st = "queued" }

\* the state crawl_list_pages leaves after a crawl of one page with these rows
CrawledOnePage(rows) ==
    LET df1 == InsertPage(ParsedDf(rows), 1)
    IN  /\ pc = "done"
        /\ fail_mode = "continue"
        /\ page = 1
        /\ total_pages = 1
        /\ frames = <<df1>>
        /\ last_key = _first_row_key(df1)
        /\ outcome = "returned"
        /\ result = Concat(<<df1>>)
        /\ events = <<Event(1, 1, Len(rows), Len(rows), "page_ok")>>
        /\ attempts = <<Attempt(1, "rows", rows, "page_ok")>>
        /\ sleep_sec = 0
        /\ trace = <<Get(1)>>
        /\ page1_info = <<Page1Info(<<>>, <<>>, Len(rows))>>

\* the run block calls fetch_details_parallel(df, workers) on a crawled listing
DetailInit ==
    /\ \E rows \in Listings : CrawledOnePage(rows)
    /\ dpc = "start"
    /\ df = result
    /\ workers \in 1..MaxWorkers
    /\ targets = <<>>
    /\ tasks = <<>>
    /\ results = <<>>
    /\ done = 0
    /\ dprogress = <<>>
    /\ out = [merged |-> FALSE, rows |-> <<>>]
    /\ requests = <<>>
    /\ FetchIdle
    /\ TableIdle
    /\ LocationIdle

\* `if df.empty ...: return df` and `if total == 0: return df`
DetailReturnEarly ==
    /\ dpc = "start"
    /\ df = <<>> \/ Len(Targets(df)) = 0
    /\ dpc' = "done"
    /\ out' = [merged |-> FALSE, rows |-> Unmerged(df)]
    /\ UNCHANGED <<df, workers, targets, tasks, results, done, dprogress, requests>>
    /\ UNCHANGED <<cvars, fvars, tvars, lvars>>

\* the dict comprehension submits one future per target
DetailSubmit ==
    /\ dpc = "start"
    /\ df # <<>>
    /\ Len(Targets(df)) > 0
    /\ targets' = Targets(df)
    /\ tasks' = [i \in 1..Len(Targets(df)) |->
                    [st |-> "queued", resp |-> NoResponse, res |-> NoResult]]
    /\ dpc' = "pool"
    /\ UNCHANGED <<df, workers, results, done, dprogress, out, requests>>
    /\ UNCHANGED <<cvars, fvars, tvars, lvars>>

\* mutant: a work item is started whether or not a worker thread is free
StartTaskUnbounded ==
    /\ dpc = "pool"
    /\ Queued # {}
    /\ LET i == CHOOSE q \in Queued : \A r \in Queued : q <= r
       IN  tasks' = [tasks EXCEPT ![i].st = "running"]
    /\ UNCHANGED <<dpc, df, workers, targets, results, done, dprogress, out, requests>>
    /\ UNCHANGED <<cvars, fvars, tvars, lvars>>

\* a free worker thread takes the oldest queued work item
StartTask ==
    /\ dpc = "pool"
    /\ Queued # {}
    /\ Cardinality(Running) < PoolSize
    /\ LET i == CHOOSE q \in Queued : \A r \in Queued : q <= r
       IN  tasks' = [tasks EXCEPT ![i].st = "running"]
    /\ UNCHANGED <<dpc, df, workers, targets, results, done, dprogress, out, requests>>
    /\ UNCHANGED <<cvars, fvars, tvars, lvars>>

\* fetch_one_detail returns in a worker thread
FinishTask ==
    /\ dpc = "pool"
    /\ \E i \in Running :
        \E resp \in (IF targets[i].notice_url = "" THEN {NoResponse}
                     ELSE DetailResponses) :
            /\ tasks' = [tasks EXCEPT ![i] =
                    [st |-> "finished", resp |-> resp,
                     res |-> fetch_one_detail(targets[i].seqno,
                                              targets[i].notice_url, resp)]]
            /\ requests' = IF targets[i].notice_url = "" THEN requests
                           ELSE Append(requests, targets[i].notice_url)
    /\ UNCHANGED <<dpc, df, workers, targets, results, done, dprogress, out>>
    /\ UNCHANGED <<cvars, fvars, tvars, lvars>>

\* mutant: progress_cb is handed the list as it was before the append
CollectResultStaleList ==
    /\ dpc = "pool"
    /\ \E i \in 1..Len(tasks) :
        /\ tasks[i].st = "finished"
        /\ LET rs == Append(results, tasks[i].res)
               ts == [tasks EXCEPT ![i].st = "collected"]
           IN  /\ results' = rs
               /\ tasks' = ts
               /\ done' = done + 1
               /\ dprogress' = Append(dprogress,
                      [done |-> done + 1, total |-> Len(targets), results |-> results])
               /\ IF \A j \in 1..Len(ts) : ts[j].st = "collected"
                  THEN /\ dpc' = "done"
                       /\ out' = [merged |-> TRUE, rows |-> Merge(df, rs)]
                  ELSE UNCHANGED <<dpc, out>>
    /\ UNCHANGED <<df, workers, targets, requests>>
    /\ UNCHANGED <<cvars, fvars, tvars, lvars>>

\* one turn of `for fut in as_completed(fut_map)`; after the last one the pool
\* is left and the results are joined to the listing
CollectResult ==
    /\ dpc = "pool"
    /\ \E i \in 1..Len(tasks) :
        /\ tasks[i].st = "finished"
        /\ LET rs == Append(results, tasks[i].res)
               ts == [tasks EXCEPT ![i].st = "collected"]
           IN  /\ results' = rs
               /\ tasks' = ts
               /\ done' = done + 1
               /\ dprogress' = Append(dprogress,
                      [done |-> done + 1, total |-> Len(targets), results |-> rs])
               /\ IF \A j \in 1..Len(ts) : ts[j].st = "collected"
                  THEN /\ dpc' = "done"
                       /\ out' = [merged |-> TRUE, rows |-> Merge(df, rs)]
                  ELSE UNCHANGED <<dpc, out>>
    /\ UNCHANGED <<df, workers, targets, requests>>
    /\ UNCHANGED <<cvars, fvars, tvars, lvars>>

DetailNext ==
    \/ DetailReturnEarly
    \/ DetailSubmit
    \/ StartTask
    \/ FinishTask
    \/ CollectResult

DetailSpec == DetailInit /\ [][DetailNext]_vars

\* the pool's threads and the main thread all keep running
DetailLiveSpec == DetailSpec /\ WF_vars(DetailNext)

\* ------------------------------------------------------------- _get_html
\* status_forcelist=(429, 500, 502, 503, 504)
status_forcelist == {429, 500, 502, 503, 504}

\* the statuses the server answers with
Statuses == {200, 404} \cup status_forcelist

\* the charset of the Content-Type header, "" when it names none
HeaderCharsets == {"", "utf-8", "x-none"}

\* the charset of the document's meta element, "" when it names none
MetaCharsets == {"", "euc-kr"}

\* the codecs Python knows among the names that occur
KnownEncodings == {"euc-kr", "cp949", "utf-8"}

\* resp.content
Body(status) == IF status = 200 THEN "listing" ELSE "error page"

Response(status, header, meta) ==
    [status |-> status, header |-> header, meta |-> meta, raw |-> Body(status)]

\* _detect_charset_from_headers(resp) or _detect_charset_from_bytes(raw) or "euc-kr"
Charset(resp) ==
    IF resp.header # "" THEN resp.header
    ELSE IF resp.meta # "" THEN resp.meta
    ELSE "euc-kr"

\* the list `candidates`
Candidates(charset) ==
    <<charset>> \o (IF charset \in {"euc-kr", "euckr"} THEN <<"cp949">> ELSE <<>>)
        \o <<"cp949", "utf-8">>

\* the first candidate raw.decode accepts; "utf-8" after the loop
RECURSIVE PickEncoding(_)
PickEncoding(cands) ==
    IF cands = <<>> THEN "utf-8"
    ELSE IF Head(cands) \in KnownEncodings THEN Head(cands)
    ELSE PickEncoding(Tail(cands))

\* raw.decode(enc, errors="replace")
Decode(raw, enc) == [bytes |-> raw, enc |-> enc]

\* the string _get_html returns for a response
Text(resp) == Decode(resp.raw, PickEncoding(Candidates(Charset(resp))))

\* Retry.increment: total always, connect or read for the matching error
Increment(r, kind) ==
    [total |-> r.total - 1,
     connect |-> IF kind = "connect" THEN r.connect - 1 ELSE r.connect,
     read |-> IF kind = "read" THEN r.read - 1 ELSE r.read]

\* Retry.is_exhausted
is_exhausted(r) == Min(Min(r.total, r.connect), r.read) < 0

\* `for attempt in range(1, 3)`: the last value of attempt
LastAttempt == 2

\* the exceptions the except clause of _get_html names
CaughtErrors == {"ReadTimeout", "ConnectTimeout", "ConnectionError"}

\* what requests raises when the adapter's retries are exhausted by
\* connection failures (refused, or timed out) or by read timeouts
ConnectFailures == {"ConnectionError", "ConnectTimeout"}

GetCall(n) == [op |-> "get", attempt |-> n]

SleepCall(n) == [op |-> "sleep", attempt |-> n]

\* mutant: the except clause does not sleep
CaughtNoSleep(e) ==
    /\ last_err' = e
    /\ flog' = flog
    /\ IF attempt < LastAttempt
       THEN /\ attempt' = attempt + 1
            /\ fpc' = "get"
            /\ UNCHANGED fout
       ELSE /\ fpc' = "raised"
            /\ fout' = [kind |-> "error", value |-> e]
            /\ UNCHANGED attempt

\* the except clause: last_err = e, time.sleep(...), then the next turn of the
\* loop, or `raise last_err` after the last one
Caught(e) ==
    /\ last_err' = e
    /\ flog' = Append(flog, SleepCall(attempt))
    /\ IF attempt < LastAttempt
       THEN /\ attempt' = attempt + 1
            /\ fpc' = "get"
            /\ UNCHANGED fout
       ELSE /\ fpc' = "raised"
            /\ fout' = [kind |-> "error", value |-> e]
            /\ UNCHANGED attempt

\* some caller calls _get_html(session, url)
FetchInit ==
    /\ fpc = "get"
    /\ attempt = 1
    /\ retries = RetryBudget
    /\ last_err = ""
    /\ answers = NoAnswers
    /\ flog = <<>>
    /\ fout = NoFetch
    /\ CrawlIdle
    /\ DetailIdle
    /\ TableIdle
    /\ LocationIdle

\* session.get(url, ...): the adapter starts with its Retry object
SessionGet ==
    /\ fpc = "get"
    /\ flog' = Append(flog, GetCall(attempt))
    /\ retries' = RetryBudget
    /\ fpc' = "send"
    /\ UNCHANGED <<attempt, last_err, answers, fout>>
    /\ UNCHANGED <<cvars, dvars, tvars, lvars>>

\* the server answers with a status of the forcelist and the adapter retries
HttpRetryStatus ==
    /\ fpc = "send"
    /\ \E st \in status_forcelist :
        /\ ~is_exhausted(Increment(retries, "status"))
        /\ retries' = Increment(retries, "status")
        /\ answers' = [answers EXCEPT !.forcelist = @ + 1]
    /\ UNCHANGED <<fpc, attempt, last_err, flog, fout>>
    /\ UNCHANGED <<cvars, dvars, tvars, lvars>>

\* the adapter hands a response to _get_html, which decodes and returns it:
\* any status outside the forcelist, or a status of the forcelist when the
\* retries are exhausted (raise_on_status=False)
HttpResponse ==
    /\ fpc = "send"
    /\ \E st \in Statuses, h \in HeaderCharsets, m \in MetaCharsets :
        /\ st \in status_forcelist => is_exhausted(Increment(retries, "status"))
        /\ retries' = IF st \in status_forcelist
                      THEN Increment(retries, "status") ELSE retries
        /\ answers' = IF st \in status_forcelist
                      THEN [answers EXCEPT !.forcelist = @ + 1, !.status = st]
                      ELSE [answers EXCEPT !.passed = @ + 1, !.status = st]
        /\ fout' = [kind |-> "text", value |-> Text(Response(st, h, m))]
    /\ fpc' = "returned"
    /\ UNCHANGED <<attempt, last_err, flog>>
    /\ UNCHANGED <<cvars, dvars, tvars, lvars>>

\* the connection cannot be made: the adapter retries, and when its retries
\* are exhausted session.get raises and the except clause runs
HttpConnectError ==
    /\ fpc = "send"
    /\ answers' = [answers EXCEPT !.connect = @ + 1]
    /\ retries' = Increment(retries, "connect")
    /\ IF is_exhausted(Increment(retries, "connect"))
       THEN \E e \in ConnectFailures : Caught(e)
       ELSE UNCHANGED <<fpc, attempt, last_err, flog, fout>>
    /\ UNCHANGED <<cvars, dvars, tvars, lvars>>

\* the server does not answer in time: likewise
HttpReadTimeout ==
    /\ fpc = "send"
    /\ answers' = [answers EXCEPT !.read = @ + 1]
    /\ retries' = Increment(retries, "read")
    /\ IF is_exhausted(Increment(retries, "read"))
       THEN Caught("ConnectionError")
       ELSE UNCHANGED <<fpc, attempt, last_err, flog, fout>>
    /\ UNCHANGED <<cvars, dvars, tvars, lvars>>

\* the body of the response breaks off: requests raises ChunkedEncodingError,
\* which the except clause does not name
HttpBodyError ==
    /\ fpc = "send"
    /\ answers' = [answers EXCEPT !.broken = @ + 1]
    /\ fpc' = "raised"
    /\ fout' = [kind |-> "error", value |-> "ChunkedEncodingError"]
    /\ UNCHANGED <<attempt, retries, last_err, flog>>
    /\ UNCHANGED <<cvars, dvars, tvars, lvars>>

FetchNext ==
    \/ SessionGet
    \/ HttpRetryStatus
    \/ HttpResponse
    \/ HttpConnectError
    \/ HttpReadTimeout
    \/ HttpBodyError

FetchSpec == FetchInit /\ [][FetchNext]_vars

\* ------------------------------------------------------------- _find_notice_list_table
\* LIST_HEADER_KEYWORDS, the Korean words by stand-ins: notice_no (gonggo
\* beonho), notice_date, company, trade, sanction, loc, kind, remark
LIST_HEADER_KEYWORDS ==
    {"No", "notice_no", "notice_date", "company", "trade", "sanction", "loc",
     "kind", "remark"}

\* The texts of the th cells of a table's first tr, as the document has them
HeaderRows ==
    { <<"No", "notice_no", "company">>,
      <<"No", " notice_date ", "x", "remark">>,
      <<"No", "notice_no", "x">>,
      <<"No", "company", "", "no">>,
      <<>> }

\* a table element: the th texts of its first tr, and len(table.find_all("tr"))
HtmlTables == { [ths |-> h, trs |-> n] : h \in HeaderRows, n \in 1..MaxRows }

\* the documents: at most MaxTables table elements, in document order
Documents == UNION { [1..n -> HtmlTables] : n \in 0..MaxTables }

\* the normalized th texts that are not empty
RECURSIVE _table_headers(_)
_table_headers(ths) ==
    IF ths = <<>> THEN <<>>
    ELSE (IF _normalize(Head(ths)) # "" THEN <<_normalize(Head(ths))>> ELSE <<>>)
            \o _table_headers(Tail(ths))

\* sum(1 for h in headers if h in LIST_HEADER_KEYWORDS)
Hit(headers) ==
    Cardinality({ i \in 1..Len(headers) : headers[i] \in LIST_HEADER_KEYWORDS })

\* mutant: two vocabulary headers are enough
_is_notice_list_table_two_hits(table) ==
    LET headers == _table_headers(table.ths)
    IN  headers # <<>> /\ Hit(headers) >= 2

_is_notice_list_table(table) ==
    LET headers == _table_headers(table.ths)
    IN  headers # <<>> /\ Hit(headers) >= 3

\* [t for t in tables if _is_notice_list_table(t)], as indices into tables
RECURSIVE CandidatesFrom(_, _)
CandidatesFrom(tables, i) ==
    IF i > Len(tables) THEN <<>>
    ELSE (IF _is_notice_list_table(tables[i]) THEN <<i>> ELSE <<>>)
            \o CandidatesFrom(tables, i + 1)

\* list.sort(key=..., reverse=True) is stable: an element goes behind the
\* elements whose key is larger or equal
RECURSIVE InsertByRows(_, _, _)
InsertByRows(x, sorted, tables) ==
    IF sorted = <<>> THEN <<x>>
    ELSE IF tables[Head(sorted)].trs >= tables[x].trs
         THEN <<Head(sorted)>> \o InsertByRows(x, Tail(sorted), tables)
         ELSE <<x>> \o sorted

\* candidates.sort(key=lambda x: len(x.find_all("tr")), reverse=True)
RECURSIVE SortByRows(_, _)
SortByRows(cands, tables) ==
    IF cands = <<>> THEN <<>>
    ELSE InsertByRows(cands[Len(cands)],
                      SortByRows(SubSeq(cands, 1, Len(cands) - 1), tables), tables)

\* the index of the returned table, 0 for None
_find_notice_list_table(tables) ==
    LET candidates == CandidatesFrom(tables, 1)
    IN  IF candidates = <<>> THEN 0
        ELSE SortByRows(candidates, tables)[1]

\* a document was parsed and _find_notice_list_table(soup) is called
TableInit ==
    /\ tpc = "find"
    /\ html_tables \in Documents
    /\ picked = 0
    /\ CrawlIdle
    /\ DetailIdle
    /\ FetchIdle
    /\ LocationIdle

FindTable ==
    /\ tpc = "find"
    /\ picked' = _find_notice_list_table(html_tables)
    /\ tpc' = "done"
    /\ UNCHANGED html_tables
    /\ UNCHANGED <<cvars, dvars, fvars, lvars>>

TableNext == FindTable

TableSpec == TableInit /\ [][TableNext]_vars

\* ------------------------------------------------------------- extract_location_from_detail
\* The words detail texts are made of: the address label (written with and
\* without a space before the colon), the two labels _LOC_RE names, another
\* label, and two values
Tokens == {"loc:", "loc :", "cat:", "dcat:", "tel:", "Seoul", "1-2"}

\* the detail texts: at most MaxTokens words
TokenTexts == UNION { [1..n -> Tokens] : n \in 0..MaxTokens }

\* the text as the detail page has it: the words with two blanks between them
RECURSIVE TextOf(_)
TextOf(toks) ==
    IF toks = <<>> THEN ""
    ELSE IF Len(toks) = 1 THEN toks[1]
    ELSE toks[1] \o "  " \o TextOf(Tail(toks))

\* some caller calls extract_location_from_detail(detail_text)
LocationInit ==
    /\ lpc = "extract"
    /\ detail_tokens \in TokenTexts
    /\ location = ""
    /\ CrawlIdle
    /\ DetailIdle
    /\ FetchIdle
    /\ TableIdle

ExtractLocation ==
    /\ lpc = "extract"
    /\ location' = extract_location_from_detail(TextOf(detail_tokens))
    /\ lpc' = "done"
    /\ UNCHANGED detail_tokens
    /\ UNCHANGED <<cvars, dvars, fvars, tvars>>

LocationNext == ExtractLocation

LocationSpec == LocationInit /\ [][LocationNext]_vars

\* ------------------------------------------------------------- history
\* the first n records of a sequence
Prefix(seq, n) == SubSeq(seq, 1, n)

\* the rows a page contributes to the dataset when it is accepted
PageRows(a) == TaggedRows(InsertPage(ParsedDf(a.rows), a.page))

\* the rows of the accepted pages of a history, in the order of the requests
RECURSIVE AcceptedRows(_)
AcceptedRows(atts) ==
    IF atts = <<>> THEN <<>>
    ELSE (IF Head(atts).verdict = "page_ok" THEN PageRows(Head(atts)) ELSE <<>>)
            \o AcceptedRows(Tail(atts))

\* the fingerprint of a page as it was parsed
PageKey(rows) == _first_row_key(ParsedDf(rows))

\* some row of the sequence rs carries page number p
HasPage(rs, p) == \E i \in 1..Len(rs) : rs[i].page = p

\* every row of the sequence small occurs in the sequence big
RowsPresent(small, big) ==
    \A i \in 1..Len(small) : \E j \in 1..Len(big) : big[j] = small[i]

Terminated == pc = "done"

\* ------------------------------------------------------------- C1
AttemptsBounded ==
    Len(attempts) <= (IF total_pages = 0 THEN 1 ELSE total_pages)

PagesIncrease ==
    \A i \in 1..Len(attempts) : \A j \in 1..Len(attempts) :
        i < j => attempts[i].page < attempts[j].page

\* C1: whatever the registry answers and whatever fail_mode is, the crawl
\* reaches a terminal state; the number of page requests never exceeds
\* total_pages as fixed from page 1 (one request when page 1 fixes none), and
\* the requested page numbers strictly increase.
C1_Terminates ==
    /\ <>Terminated
    /\ [](AttemptsBounded /\ PagesIncrease)

C1_Witness ==
    /\ Terminated
    /\ total_pages = MaxPages
    /\ Len(attempts) = MaxPages
    /\ \E i \in 1..Len(attempts) : attempts[i].verdict = "page_fail"

\* ------------------------------------------------------------- C2
\* C2: a page n >= 2 that parses to rows and whose first-row fingerprint equals
\* that of the page n-1 requested just before it (page 1 included) ends the
\* crawl with repeat_page_detected: it is the last request, its rows are not
\* in the dataset.
C2_DuplicateGuard ==
    \A i \in 2..Len(attempts) :
        LET a == attempts[i]
            b == attempts[i - 1]
        IN  (/\ a.kind = "rows" /\ a.rows # <<>>
             /\ b.kind = "rows" /\ b.rows # <<>>
             /\ b.page = a.page - 1
             /\ PageKey(a.rows) = PageKey(b.rows))
            => /\ a.verdict = "repeat_page_detected"
               /\ i = Len(attempts)
               /\ Terminated
               /\ ~HasPage(Concat(frames), a.page)

\* ------------------------------------------------------------- C3
\* page k failed to fetch in the middle of a "continue" crawl
MidFailure(i) ==
    /\ fail_mode = "continue"
    /\ attempts[i].kind = "fail"
    /\ 2 <= attempts[i].page
    /\ attempts[i].page < total_pages

\* page k gives no rows and page k+1 is requested next
SkippedAndContinued(i) ==
    /\ ~HasPage(Concat(frames), attempts[i].page)
    /\ IF i < Len(attempts)
       THEN attempts[i + 1].page = attempts[i].page + 1
       ELSE pc = "loop" /\ page = attempts[i].page + 1

\* C3 as claimed: ... and the rows of every later page that parses to rows are
\* in the final dataset.
C3_Original ==
    \A i \in 1..Len(attempts) :
        MidFailure(i) =>
            /\ SkippedAndContinued(i)
            /\ Terminated =>
                \A j \in (i + 1)..Len(attempts) :
                    (attempts[j].kind = "rows" /\ attempts[j].rows # <<>>)
                        => RowsPresent(PageRows(attempts[j]), result)

\* C3 as amended: with fail_mode "continue" a fetch failure of a page k,
\* 2 <= k < total_pages, does not end the crawl: page k gives no rows, page k+1
\* is requested next, and the rows of every later page that is accepted
\* (page_ok) are in the final dataset.
C3_ContinueSkips ==
    \A i \in 1..Len(attempts) :
        MidFailure(i) =>
            /\ SkippedAndContinued(i)
            /\ Terminated =>
                \A j \in (i + 1)..Len(attempts) :
                    attempts[j].verdict = "page_ok"
                        => RowsPresent(PageRows(attempts[j]), result)

C3_Witness ==
    /\ Terminated
    /\ \E i \in 1..Len(attempts) :
        /\ MidFailure(i)
        /\ i < Len(attempts)
        /\ attempts[i + 1].verdict = "page_ok"
        /\ RowsPresent(PageRows(attempts[i + 1]), result)

\* ------------------------------------------------------------- C4
\* C4: with fail_mode "stop" a fetch failure of a page k >= 2 is the last
\* request of the crawl, which returns exactly the rows of the pages accepted
\* before k.
C4_StopAborts ==
    \A i \in 1..Len(attempts) :
        (/\ fail_mode = "stop"
         /\ attempts[i].kind = "fail"
         /\ attempts[i].page >= 2)
        => /\ i = Len(attempts)
           /\ Terminated
           /\ outcome = "returned"
           /\ result = AcceptedRows(Prefix(attempts, i - 1))

C4_Witness ==
    /\ fail_mode = "stop"
    /\ Terminated
    /\ Len(attempts) = 3
    /\ attempts[3].kind = "fail"
    /\ attempts[3].page < total_pages
    /\ Len(result) > 1

\* ------------------------------------------------------------- C5
\* C5: a page that parses to zero rows is the last request of the crawl under
\* either fail_mode; the crawl returns normally, the empty dataset when the
\* page is page 1 and the rows of the pages accepted before it otherwise.
C5_EmptyPageCompletes ==
    \A i \in 1..Len(attempts) :
        (attempts[i].kind = "rows" /\ attempts[i].rows = <<>>)
        => /\ i = Len(attempts)
           /\ Terminated
           /\ outcome = "returned"
           /\ result = AcceptedRows(Prefix(attempts, i - 1))
           /\ (attempts[i].page = 1 => result = <<>>)

C5_Witness ==
    /\ fail_mode = "continue"
    /\ Terminated
    /\ Len(attempts) = 3
    /\ attempts[3].kind = "rows"
    /\ attempts[3].rows = <<>>
    /\ attempts[3].page < total_pages
    /\ Len(result) > 1

\* ------------------------------------------------------------- C6
\* what a failed request of page n >= 2 leads to, by fail_mode
HandledLikeFailure(i) ==
    /\ ~HasPage(Concat(frames), attempts[i].page)
    /\ IF fail_mode = "continue" /\ attempts[i].page < total_pages
       THEN IF i < Len(attempts)
            THEN attempts[i + 1].page = attempts[i].page + 1
            ELSE pc = "loop" /\ page = attempts[i].page + 1
       ELSE /\ i = Len(attempts)
            /\ Terminated
            /\ outcome = "returned"
            /\ result = AcceptedRows(Prefix(attempts, i - 1))

\* C6: a page n >= 2 that is fetched but has no listing table gives no rows;
\* with "continue" page n+1 is requested next, with "stop" the crawl returns
\* the rows of the pages accepted so far -- as for a page that fails to fetch.
C6_NoTableLikeFailure ==
    \A i \in 1..Len(attempts) :
        (attempts[i].page >= 2 /\ attempts[i].kind \in {"no_table", "fail"})
            => HandledLikeFailure(i)

C6_Witness ==
    /\ fail_mode = "continue"
    /\ Terminated
    /\ Len(attempts) = 4
    /\ attempts[2].kind = "no_table"
    /\ attempts[3].verdict = "page_ok"
    /\ attempts[4].kind = "no_table"


\* ------------------------------------------------------------- C7
\* the distinct non-empty record keys of a listing
KeysOf(d) == { d[i].seqno : i \in 1..Len(d) } \ {""}

TasksFor(s) == { i \in 1..Len(targets) : targets[i].seqno = s }

RequestsFor(u) == { i \in 1..Len(requests) : requests[i] = u }

DetailDone == dpc = "done"

\* C7: one detail task (and so one detail request) per distinct non-empty
\* record key of the listing, however many rows share the key, and none for a
\* key the listing does not have.
C7_OneFetchPerKey ==
    /\ dpc \in {"pool", "done"} /\ targets # <<>>
        => \A s \in KeysOf(df) : Cardinality(TasksFor(s)) = 1
    /\ \A i \in 1..Len(targets) : targets[i].seqno \in KeysOf(df)
    /\ \A i \in 1..Len(requests) :
        /\ requests[i] \in { VIEW_URL(s) : s \in KeysOf(df) }
        /\ Cardinality(RequestsFor(requests[i])) = 1
    /\ DetailDone
        => \A s \in KeysOf(df) : Cardinality(RequestsFor(VIEW_URL(s))) = 1

C7_Witness ==
    /\ DetailDone
    /\ Len(df) = 3
    /\ df[1].seqno = df[3].seqno
    /\ df[1] # df[3]
    /\ df[2].seqno \notin {"", df[1].seqno}
    /\ Len(requests) = 2

\* ------------------------------------------------------------- C8
\* the result collected for the key s
ResultsFor(s) == { i \in 1..Len(results) : results[i].seqno = s }

\* the result of task t says what its own request came back with
ReflectsOwnResponse(t) ==
    \A i \in ResultsFor(targets[t].seqno) :
        IF tasks[t].resp.kind = "raise"
        THEN /\ results[i].detail_ok = "0"
             /\ results[i].detail_error # ""
             /\ results[i].detail_text = ""
        ELSE IF tasks[t].resp.text = ""
             THEN /\ results[i].detail_ok = "0"
                  /\ results[i].detail_error # ""
             ELSE /\ results[i].detail_ok = "1"
                  /\ results[i].detail_error = ""
                  /\ results[i].detail_text = tasks[t].resp.text

OneResultPerKey ==
    (DetailDone /\ out.merged) =>
        /\ Len(results) = Cardinality(KeysOf(df))
        /\ \A s \in KeysOf(df) : Cardinality(ResultsFor(s)) = 1
        /\ \A t \in 1..Len(tasks) : ReflectsOwnResponse(t)

\* C8: whichever detail requests fail and in whatever order the workers
\* finish, fetch_details_parallel finishes, with exactly one result per unique
\* key; a failed key has detail_ok "0" and a non-empty detail_error, and every
\* other key has the result of its own request.
C8_FailureIsolated ==
    /\ <>DetailDone
    /\ []OneResultPerKey

C8_Witness ==
    /\ DetailDone
    /\ Len(tasks) = 3
    /\ tasks[1].resp.kind = "raise"
    /\ tasks[2].resp.kind = "text" /\ tasks[2].resp.text # ""
    /\ tasks[3].resp.kind = "raise"
    /\ results[1].seqno = targets[2].seqno
    /\ results[1].detail_ok = "1"

\* ------------------------------------------------------------- C9
\* the rows of the returned DataFrame that come from listing row i
OutRowsOf(i) == { k \in 1..Len(out.rows) : out.rows[k].row = df[i] }

\* C9 as claimed: every listing row whose record key or detail URL is empty
\* ends up with detail_ok "0" and detail_error "missing_url", without a
\* request.
C9_Original ==
    DetailDone =>
        \A i \in 1..Len(df) :
            (df[i].seqno = "" \/ df[i].notice_url = "") =>
                /\ OutRowsOf(i) # {}
                /\ \A k \in OutRowsOf(i) :
                    /\ out.rows[k].detail.detail_ok = "0"
                    /\ out.rows[k].detail.detail_error = "missing_url"
                /\ RequestsFor(df[i].notice_url) = {}

\* C9 as amended: a listing row has an empty detail URL exactly when its
\* record key is empty; such a row gets no detail task and no request, and it
\* ends up with unset detail fields (it is not marked detail_ok "0" /
\* "missing_url").
C9_EmptyKeyUnfetched ==
    \A i \in 1..Len(df) :
        /\ (df[i].notice_url = "") <=> (df[i].seqno = "")
        /\ df[i].seqno = "" =>
            /\ TasksFor(df[i].seqno) = {}
            /\ RequestsFor(df[i].notice_url) = {}
            /\ DetailDone =>
                /\ OutRowsOf(i) # {}
                /\ \A k \in OutRowsOf(i) :
                    out.rows[k].detail \in {NaNDetail, NoColumns}

C9_Witness ==
    /\ DetailDone
    /\ out.merged
    /\ Len(df) = 3
    /\ df[2].seqno = ""
    /\ out.rows[2].detail = NaNDetail
    /\ out.rows[1].detail.detail_ok = "1"
    /\ out.rows[3].detail.detail_ok = "0"

\* ------------------------------------------------------------- C10
\* C10: whatever the order in which the detail tasks complete, the returned
\* DataFrame has the rows of the listing, once each and in their order; a row
\* with a non-empty key carries the result of the task of its key, a row
\* without a task has unset detail fields.
C10_LeftJoin ==
    DetailDone =>
        /\ Len(out.rows) = Len(df)
        /\ \A i \in 1..Len(df) :
            /\ out.rows[i].row = df[i]
            /\ (out.merged /\ df[i].seqno # "") =>
                /\ TasksFor(df[i].seqno) # {}
                /\ \A t \in TasksFor(df[i].seqno) :
                    out.rows[i].detail = DetailOf(tasks[t].res)
            /\ (out.merged /\ df[i].seqno = "") => out.rows[i].detail = NaNDetail
            /\ ~out.merged => out.rows[i].detail = NoColumns

C10_Witness ==
    /\ DetailDone
    /\ out.merged
    /\ Len(df) = 3
    /\ df[1].seqno = ""
    /\ Len(results) = 2
    /\ results[1].seqno = df[3].seqno
    /\ results[2].seqno = df[2].seqno
    /\ results[1].detail_ok # results[2].detail_ok
    /\ out.rows[2].detail = DetailOf(results[2])


\* ------------------------------------------------------------- C13
\* page 1 parsed to a listing table without rows: the date range has no results
ZeroResultRun ==
    /\ Terminated
    /\ attempts[1].kind = "rows"
    /\ attempts[1].rows = <<>>

\* page 1 could not be fetched, or held no listing table
FailedRun ==
    /\ Terminated
    /\ attempts[1].kind \in {"fail", "no_table"}

\* what the user sees of a zero-result run
ZeroResultObservation ==
    [status |-> "warning_no_results", events |-> <<>>, dataset |-> <<>>]

\* C13: a run whose page 1 has no results returns normally with an empty
\* dataset, and what the user sees of it differs from what the user sees of
\* every run whose page 1 failed to fetch or held no listing table.
C13_ZeroResultDistinct ==
    /\ ZeroResultRun =>
            /\ outcome = "returned"
            /\ result = <<>>
            /\ Observation = ZeroResultObservation
    /\ FailedRun => Observation # ZeroResultObservation

\* ------------------------------------------------------------- C14
ProgressStatuses ==
    {"page_ok", "page_fail", "page_no_table", "no_more_rows", "repeat_page_detected"}

\* C14: every page request emits exactly one progress event, the request of
\* page 1 and the last request of the crawl included: the i-th event belongs
\* to the i-th request, and its status is one of page_ok, page_fail,
\* page_no_table, no_more_rows, repeat_page_detected.
C14_OneEventPerAttempt ==
    /\ Len(events) = Len(attempts)
    /\ \A i \in 1..Len(events) :
        /\ events[i].page = attempts[i].page
        /\ events[i].status \in ProgressStatuses

\* ------------------------------------------------------------- C17
\* the k-th call of the trace requests a page that was accepted
AcceptedGet(k) ==
    /\ trace[k].op = "get"
    /\ \E i \in 1..Len(attempts) :
        attempts[i].page = trace[k].page /\ attempts[i].verdict = "page_ok"

\* a page is requested after the k-th call of the trace
FetchFollows(k) == \E m \in (k + 1)..Len(trace) : trace[m].op = "get"

\* C17: with sleep_sec > 0, whenever a page was fetched and accepted and another
\* page is fetched after it, time.sleep(sleep_sec) is called between the two
\* requests, page 1 followed by page 2 included.
C17_SleepBetweenFetches ==
    sleep_sec > 0 =>
        \A k \in 1..Len(trace) :
            AcceptedGet(k) /\ FetchFollows(k) => trace[k + 1] = Sleep(sleep_sec)

\* ------------------------------------------------------------- C18
\* C18 as claimed: total_pages is Y when the widget is present, else
\* ceil(N / rows_per_page) when a total count N is present, else 1.
C18_Original ==
    page1_info # <<>> =>
        LET i == page1_info[1]
        IN  total_pages =
                IF i.widget # <<>> THEN i.widget[1]
                ELSE IF i.total_count # <<>>
                     THEN Ceil(i.total_count[1], i.rows_per_page)
                     ELSE 1

\* C18: total_pages is Y when the widget is present with Y >= 1; otherwise
\* (widget absent or 0) it is max(1, ceil(N / rows_per_page)) when a total
\* count N is present, and 1 when none is.
C18_TotalPages ==
    page1_info # <<>> =>
        LET i == page1_info[1]
        IN  total_pages =
                IF i.widget # <<>> /\ i.widget[1] >= 1 THEN i.widget[1]
                ELSE IF i.total_count # <<>>
                     THEN Max(1, Ceil(i.total_count[1], i.rows_per_page))
                     ELSE 1

C18_Witness ==
    /\ page1_info # <<>>
    /\ page1_info[1].widget = <<0>>
    /\ page1_info[1].total_count = <<3>>
    /\ page1_info[1].rows_per_page = 2
    /\ total_pages = 2

\* ------------------------------------------------------------- C15
\* every submitted task has run to completion and its result was taken
AllTasksCompleted ==
    /\ tasks # <<>>
    /\ \A i \in 1..Len(tasks) : tasks[i].st = "collected"

\* C15: for every workers >= 1 and every interleaving, the number of detail
\* tasks that have started and not yet finished never exceeds workers, and
\* once the tasks are submitted every one of them eventually runs to completion.
C15_BoundedPool ==
    /\ [](workers >= 1 /\ Cardinality(Running) <= workers)
    /\ (dpc = "pool") ~> AllTasksCompleted

C15_Witness ==
    /\ workers = MaxWorkers
    /\ Cardinality(Running) = workers
    /\ Queued # {}

\* ------------------------------------------------------------- C20
\* the results of the list rs have pairwise different keys
DistinctKeys(rs) ==
    \A a \in 1..Len(rs) : \A b \in 1..Len(rs) : a # b => rs[a].seqno # rs[b].seqno

\* C20: with T unique keys, the i-th call of the detail progress callback
\* carries done = i, total = T and a list of exactly i results with pairwise
\* different keys, in every order in which the workers finish; when
\* fetch_details_parallel has returned the callback was called exactly T times.
C20_ProgressExact ==
    /\ \A i \in 1..Len(dprogress) :
        /\ dprogress[i].done = i
        /\ dprogress[i].total = Cardinality(KeysOf(df))
        /\ Len(dprogress[i].results) = i
        /\ DistinctKeys(dprogress[i].results)
    /\ Len(dprogress) <= Cardinality(KeysOf(df))
    /\ DetailDone => Len(dprogress) = Cardinality(KeysOf(df))

C20_Witness ==
    /\ DetailDone
    /\ Len(dprogress) = 3
    /\ workers = MaxWorkers
    /\ dprogress[1].results[1].seqno # targets[1].seqno

\* ------------------------------------------------------------- C11
FetchEnded == fpc \in {"returned", "raised"}

\* every request of the call was answered with a retryable failure
OnlyRetryableFailures == answers.passed = 0 /\ answers.broken = 0

\* C11: _get_html returns text only for a response whose status is none of
\* 429, 500, 502, 503, 504, and a call whose every request met a connection
\* failure, a read timeout or one of these statuses ends in an exception;
\* so does a call whose every request was answered with such a status.
C11_FailsAfterBudget ==
    /\ fpc = "returned" => answers.status \notin status_forcelist
    /\ FetchEnded /\ OnlyRetryableFailures =>
            fpc = "raised" /\ fout.kind = "error"

\* ------------------------------------------------------------- C12
GetCalls == { k \in 1..Len(flog) : flog[k].op = "get" }

\* C12: a call of _get_html calls session.get at most twice; the second call
\* comes only after the first one raised a timeout or connection error and
\* right after a sleep; a response on either call is decoded and returned
\* with no further call; a timeout or connection error reaches the caller
\* only after the second of the two calls raised it.
C12_TwoAttempts ==
    /\ Cardinality(GetCalls) <= 2
    /\ \A k \in GetCalls :
        /\ flog[k].attempt = Cardinality({ j \in GetCalls : j <= k })
        /\ flog[k].attempt = 2 =>
            /\ k = 3
            /\ flog[1] = GetCall(1)
            /\ flog[2] = SleepCall(1)
            /\ last_err \in CaughtErrors
    /\ fpc = "returned" =>
            /\ fout.kind = "text"
            /\ flog[Len(flog)] = GetCall(attempt)
    /\ fpc = "raised" /\ fout.value \in CaughtErrors =>
            /\ attempt = 2
            /\ SubSeq(flog, 1, 4) = <<GetCall(1), SleepCall(1), GetCall(2), SleepCall(2)>>
            /\ fout.value = last_err

C12_Witness ==
    /\ fpc = "raised"
    /\ fout.value = "ConnectTimeout"
    /\ answers.connect + answers.read + answers.forcelist = 12

\* ------------------------------------------------------------- C16
\* how many th texts of the first row are vocabulary words once trimmed
VocabularyHeaders(t) ==
    Cardinality({ i \in 1..Len(t.ths) : _normalize(t.ths[i]) \in LIST_HEADER_KEYWORDS })

Qualifying == { i \in 1..Len(html_tables) : VocabularyHeaders(html_tables[i]) >= 3 }

\* C16: a table with fewer than 3 vocabulary headers in its first row (exactly
\* 2 included) is never returned, whatever its row count; the returned table
\* has the most rows among the qualifying tables and is the first of those
\* in document order; without a qualifying table None is returned.
C16_TableIdentification ==
    tpc = "done" =>
        IF Qualifying = {} THEN picked = 0
        ELSE /\ picked \in Qualifying
             /\ VocabularyHeaders(html_tables[picked]) # 2
             /\ \A j \in Qualifying :
                 /\ html_tables[j].trs <= html_tables[picked].trs
                 /\ html_tables[j].trs = html_tables[picked].trs => picked <= j

C16_Witness ==
    /\ tpc = "done"
    /\ Len(html_tables) = 3
    /\ picked = 2
    /\ VocabularyHeaders(html_tables[1]) = 2
    /\ html_tables[1].trs > html_tables[2].trs
    /\ 3 \in Qualifying
    /\ html_tables[3].trs = html_tables[2].trs
    /\ html_tables[3] # html_tables[2]

\* ------------------------------------------------------------- C19
AddressLabels == {"loc:", "loc :"}

KnownLabels == {"cat:", "dcat:"}

AnyLabels == AddressLabels \cup KnownLabels \cup {"tel:"}

\* the positions of the words of the set ws behind position i
After(toks, i, ws) == { j \in (i + 1)..Len(toks) : toks[j] \in ws }

Least(S) == CHOOSE x \in S : \A y \in S : x <= y

\* the words i+1 .. j-1 with one blank between them
RECURSIVE Between(_, _, _)
Between(toks, i, j) ==
    IF i + 1 >= j THEN ""
    ELSE IF i + 2 = j THEN toks[i + 1]
    ELSE toks[i + 1] \o " " \o Between(toks, i + 1, j)

\* What the claim describes, word by word: behind the first address label,
\* the words up to the next of the two known labels when there is one, else
\* up to the next label of any kind when there is one, else nothing.
ExpectedLocation(toks) ==
    LET addr == After(toks, 0, AddressLabels)
    IN  IF addr = {} THEN ""
        ELSE LET i == Least(addr)
             IN  IF After(toks, i, KnownLabels) # {}
                 THEN Between(toks, i, Least(After(toks, i, KnownLabels)))
                 ELSE IF After(toks, i, AnyLabels) # {}
                 THEN Between(toks, i, Least(After(toks, i, AnyLabels)))
                 ELSE ""

\* C19: the location is a function of the detail text alone: the text behind
\* the address label up to the next of the two known labels, and only when no
\* known label follows up to the next label of any kind; the empty string
\* when the text has no address label or no label behind it.
C19_LocationExtraction ==
    lpc = "done" =>
        /\ location = ExpectedLocation(detail_tokens)
        /\ After(detail_tokens, 0, AddressLabels) = {} => location = ""
        /\ (\A i \in After(detail_tokens, 0, AddressLabels) :
                After(detail_tokens, i, AnyLabels) = {}) => location = ""

C19_Witness ==
    /\ lpc = "done"
    /\ detail_tokens = <<"loc :", "Seoul", "tel:", "dcat:">>
    /\ location = "Seoul tel:"

\* ------------------------------------------------------------- C21
\* the rows page request a parsed to, each with the number of its page
RowsOfPage(a) ==
    [k \in 1..Len(a.rows) |->
        [page |-> a.page, seqno |-> a.rows[k].seqno,
         notice_url |-> a.rows[k].notice_url, cells |-> a.rows[k].cells]]

\* the rows of the page requests that ended with page_ok, in request order
RECURSIVE DatasetOf(_)
DatasetOf(atts) ==
    IF atts = <<>> THEN <<>>
    ELSE (IF Head(atts).verdict = "page_ok" THEN RowsOfPage(Head(atts)) ELSE <<>>)
            \o DatasetOf(Tail(atts))

\* C21: at every point of a crawl the accumulated frames, and the returned
\* dataset, are the rows of exactly the pages accepted so far (status
\* page_ok), each row with its page number, with page numbers strictly
\* increasing from frame to frame (no page twice); pages that failed, had no
\* table, were empty or were repeats contribute nothing; and rows_total of
\* every progress event is the number of rows accumulated when it was emitted.
C21_DatasetIsAcceptedPages ==
    /\ Concat(frames) = DatasetOf(attempts)
    /\ outcome = "returned" => result = DatasetOf(attempts)
    /\ \A i \in 1..Len(frames) : \A j \in 1..Len(frames) :
            i < j => frames[i].page < frames[j].page
    /\ \A i \in 1..Len(events) :
        /\ (events[i].status = "page_ok") = (attempts[i].verdict = "page_ok")
        /\ events[i].rows_total = Len(DatasetOf(Prefix(attempts, i)))
        /\ events[i].rows_this =
                Len(DatasetOf(Prefix(attempts, i))) - Len(DatasetOf(Prefix(attempts, i - 1)))

C21_Witness ==
    /\ Terminated
    /\ outcome = "returned"
    /\ Len(attempts) = 4
    /\ attempts[2].verdict = "page_fail"
    /\ attempts[3].verdict = "page_ok"
    /\ attempts[4].verdict = "repeat_page_detected"
    /\ Len(attempts[1].rows) = 2
    /\ Len(result) = 3
    /\ result[3].page = 3

=============================================================================
